---- MODULE Spec2Model ----
(***************************************************************************)
(* The coordination process of the browser extension                       *)
(* (src/extension/client-side/background.js) with the audio surface        *)
(* (src/extension/client-side/offscreen.js) as its environment.            *)
(*                                                                         *)
(* The process is single threaded.  A handler runs from the event that     *)
(* starts it to its first await, and from the resolution of one await to   *)
(* the next; each such run is one action.  A handler suspended at an await *)
(* is a record in the bag `tasks`: its kind names the handler, its pc the  *)
(* await it is suspended at.  Pending host calls resolve in any order.     *)
(* The effect of a host call (closing or creating the offscreen document,  *)
(* writing storage) is taken at the moment the call resolves.              *)
(*                                                                         *)
(* Spec is the recording controller and the session: no tab is activated,  *)
(* no alarm fires and the clock stands still.  TrackerSpec is the activity *)
(* tracker: tab, focus and alarm listeners, login, logout, process        *)
(* restart and the wall clock, with no recording started.  PopupSpec is    *)
(* the popup page (src/unnamed/part_000) with the start and stop paths of  *)
(* the coordination process it talks to.                                   *)
(***************************************************************************)
EXTENDS Integers, Sequences, FiniteSets, Bags, TLC

\* ---------------------------------------------------------------- bounds
\* Listener invocations of the coordination process in one run.
MaxEvents == 3
\* Handlers suspended at the same time.
MaxTasks == 2
\* Seconds the wall clock advances in one run.
MaxTicks == 4
\* Seconds in an hour of the wall clock (scaled down).
HourLen == 2

\* ------------------------------------------------------------- constants
MEETING_PATTERNS == {"meet.google.com", "zoom.us/j/"}

\* A URL is the sequence of its fragments; null is the empty sequence.
NullUrl == <<>>
MeetUrl == <<"https://", "meet.google.com", "/abc-defg-hij">>
ZoomUrl == <<"https://", "zoom.us/j/", "123">>
OtherUrl == <<"https://", "example.com", "/">>
Urls == {MeetUrl, ZoomUrl, OtherUrl}

\* Tab ids of open tabs; GoneTab is an id no open tab has; 0 is "no tab".
Tabs == {1, 2}
GoneTab == CHOOSE n \in 1..(Cardinality(Tabs) + 1) : n \notin Tabs
NoTab == 0

\* A URL getDomain resolves to no host, and the URLs the tracker sees.
ChromeUrl == <<"chrome://", "extensions", "/">>
TrackerUrls == {MeetUrl, OtherUrl, ChromeUrl}

\* Hostnames of the tracked URLs; "" is the null domain.
Domains == {"meet.google.com", "example.com"}
NullDomain == ""

\* Date.now() in seconds; 0 is the null startTime.
NullTime == 0
WORKING_HOUR_START == 9
WORKING_HOUR_END == 17

\* chrome.windows.WINDOW_ID_NONE and the browser windows.
WINDOW_ID_NONE == 0 - 1
Windows == {1}

\* dailyActivityLog: seconds per domain, 0 for a key that is absent.
EmptyLog == [d \in Domains |-> 0]
SavedLog == [d \in Domains |-> IF d = "example.com" THEN 5 ELSE 0]

\* The user whose seconds the log saved before the run holds.
SavedBy == "a@corp.io"

\* activeTabInfo = { tabId: null, url: null, domain: null, startTime: null }
EmptyTabInfo == [tabId |-> NoTab, url |-> NullUrl, domain |-> NullDomain, startTime |-> NullTime]

Users == {"a@corp.io", "b@corp.io"}
NullUser == "null"

\* recordingId = `rec_${user?.email || 'unknown'}_${Date.now()}`
NullId == [user |-> "", t |-> 0]
MakeRecordingId(u, now) == [user |-> IF u = NullUser THEN "unknown" ELSE u, t |-> now]

\* ------------------------------------------------------- error messages
ErrLogin == "Please login first."
ErrAlready == "Already recording another meeting."
ErrUnsupported == "Target tab is not a recognized meeting URL or doesn't exist."
ErrNoTab == "No tab with id."
ErrQuery == "clients.matchAll failed"
ErrClose == "No current offscreen document."
ErrStream == "Error starting tab capture"
ErrCreate == "Only a single offscreen document may be created."
ErrCancelled == "OAuth flow failed or was cancelled."
ErrNoCode == "Authorization code not found in redirect URL."
ErrExchange == "Backend token exchange failed"
ErrNoUser == "Backend did not confirm successful login or return user data."
ErrTypeError == "Cannot read properties of null (reading 'includes')"
ErrMissingTabId == "Missing tabId"
ErrStorage == "chrome.storage.local.remove failed"
NoErr == ""

VARIABLES
    user,            \* let user
    isLoggedIn,      \* let isLoggedIn
    isRecording,     \* let isRecording
    recordingTabId,  \* let recordingTabId (0 is null)
    recordingTabUrl, \* let recordingTabUrl
    recordingId,     \* let recordingId
    stored,          \* chrome.storage.local {user, isLoggedIn}: the stored user or NullUser
    doc,             \* an offscreen document exists
    recorder,        \* offscreen.js mediaRecorder.state = 'recording'
    offIn,           \* relay messages on their way to the offscreen document, in order
    bgIn,            \* relay messages on their way to the coordination process, in order
    tabUrl,          \* the URL of each open tab
    tasks,           \* bag of suspended handlers
    resp,            \* the last sendResponse, or the last unhandled rejection
    endCalls,        \* POST /audio/stream/end requests made, in order
    streamCalls,     \* POST /audio/stream requests made
    stopInitiator,   \* reason of the first stop begun on the current recording
    clock,           \* Date.now() at the next successful start
    events,          \* handler invocations so far
    now,             \* Date.now(), in seconds
    activeTab,       \* the browser's active tab
    activeTabInfo,   \* let activeTabInfo
    dailyActivityLog,\* let dailyActivityLog
    storedLog,       \* chrome.storage.local dailyActivityLog
    fg,              \* the tab the tab and focus events put in the foreground, and since when
    ideal,           \* seconds of the dwell intervals between the tab and focus events
    tabEventsOnly,   \* no alarm and no restart has happened
    creditedTo,      \* the time up to which dwell time has been accrued
    docOf,           \* the recording id set when the offscreen document was created
    chunkOf,         \* the docOf of the document that sent the audioChunk in flight
    accruedBy,       \* the users whose seconds dailyActivityLog holds
    storedBy,        \* the users whose seconds the stored dailyActivityLog holds
    popup            \* the popup page: its handler position, status text and record button

session == <<user, isLoggedIn, stored>>
recording == <<isRecording, recordingTabId, recordingTabUrl, recordingId>>
surface == <<doc, recorder, offIn>>
backend == <<endCalls, streamCalls>>
producer == <<docOf, chunkOf>>
owners == <<accruedBy, storedBy>>
tracker == <<now, activeTab, activeTabInfo, dailyActivityLog, storedLog, fg, ideal,
             tabEventsOnly, creditedTo>>
vars == <<user, isLoggedIn, isRecording, recordingTabId, recordingTabUrl, recordingId,
          stored, doc, recorder, offIn, bgIn, tabUrl, tasks, resp, endCalls,
          streamCalls, stopInitiator, clock, events, now, activeTab, activeTabInfo,
          dailyActivityLog, storedLog, fg, ideal, tabEventsOnly, creditedTo,
          docOf, chunkOf, accruedBy, storedBy, popup>>

\* ---------------------------------------------------------------- helpers
\* The popup page when it is not open.
ClosedPopup ==
    [pc |-> "closed", tab |-> NoTab, url |-> NullUrl, status |-> <<>>, label |-> "",
     disabled |-> FALSE]

\* tab.url.includes(p)
Includes(url, p) == \E i \in 1..Len(url) : url[i] = p

\* MEETING_PATTERNS.some(p => url.includes(p))
IsMeetingUrl(url) == \E p \in MEETING_PATTERNS : Includes(url, p)

\* The reason each trigger hands to handleStopCapture.
Reason(t) ==
    CASE t.kind = "stopCapture" -> <<"User requested">>
      [] t.kind = "logout" -> <<"Logging out">>
      [] t.kind = "recordingError" -> <<"Error in offscreen document">>
      [] t.kind = "recordingStopped" -> <<"Stopped externally or finished">>
      [] t.kind = "tabUpdated" -> <<"Tab navigated away">>
      [] t.kind = "startCapture" -> <<"Failed to start: ", t.err>>

\* A handler: tab and url are its tabId and the URL it holds (tab.url of the
\* looked-up tab, changeInfo.url), err the error it has caught, usr the user
\* object it is about to store, end its endTime, log its logToSend or the
\* log it handed to storage.set.
Task(kind, tab, url) ==
    [kind |-> kind, pc |-> "new", tab |-> tab, url |-> url, err |-> NoErr, usr |-> NullUser,
     end |-> NullTime, log |-> EmptyLog]

NoResp == [action |-> "none", success |-> TRUE, error |-> NoErr]
Response(action, ok, err) == [action |-> action, success |-> ok, error |-> err]

\* Relay messages are delivered in the order sent.
InSeq(m, q) == \E i \in DOMAIN q : q[i] = m
Next1(q, m) == q # <<>> /\ Head(q) = m

Suspended == BagToSet(tasks)
Move(t, t2) == tasks' = (tasks (-) SetToBag({t})) (+) SetToBag({t2})
End(t) == tasks' = tasks (-) SetToBag({t})
At(t, pc) == [t EXCEPT !.pc = pc]

\* The run may take one more event; one more handler may suspend.
CanHandle == events < MaxEvents
CanSpawn == CanHandle /\ BagCardinality(tasks) < MaxTasks

\* ------------------------------------------------------ activity tracker
\* isWorkingHours at time t: the hour of the local day is within [9, 17).
HourOf(t) == (t \div HourLen) % 24
isWorkingHours(t) == HourOf(t) >= WORKING_HOUR_START /\ HourOf(t) < WORKING_HOUR_END

\* getDomain: the hostname of an http(s) URL, null otherwise.
getDomain(url) ==
    IF url = NullUrl \/ url[1] \notin {"http://", "https://"} THEN NullDomain ELSE url[2]

\* The seconds updateActivity adds for previousTabInfo at endTime (lines
\* 376-381): none when logged out, outside working hours, without a domain or
\* a start time, or when the interval is 1 second or less.
Seconds(previousTabInfo, endTime) ==
    IF \/ ~isLoggedIn
       \/ ~isWorkingHours(endTime)
       \/ previousTabInfo.domain = NullDomain
       \/ previousTabInfo.startTime = NullTime
       \/ endTime - previousTabInfo.startTime <= 1
    THEN 0
    ELSE endTime - previousTabInfo.startTime

\* updateActivity: the log after the interval of previousTabInfo is added.
updateActivity(previousTabInfo, endTime) ==
    IF Seconds(previousTabInfo, endTime) = 0
    THEN dailyActivityLog
    ELSE [dailyActivityLog EXCEPT ![previousTabInfo.domain] = @ + Seconds(previousTabInfo, endTime)]

RECURSIVE SumOver(_, _)
SumOver(log, ds) ==
    IF ds = {} THEN 0
    ELSE LET d == CHOOSE x \in ds : TRUE IN log[d] + SumOver(log, ds \ {d})

\* The sum over domains of the seconds in a log.
Total(log) == SumOver(log, Domains)

\* The activeTabInfo a listener builds from a looked-up tab.
TabInfo(tabId, endTime) ==
    [tabId |-> tabId, url |-> tabUrl[tabId], domain |-> getDomain(tabUrl[tabId]),
     startTime |-> endTime]

\* Every listener of lines 387-479 begins by copying activeTabInfo and adding
\* its interval up to now; creditedTo follows the accrual.
Accrue ==
    /\ dailyActivityLog' = updateActivity(activeTabInfo, now)
    /\ creditedTo' = IF Seconds(activeTabInfo, now) > 0 THEN now ELSE creditedTo
    /\ accruedBy' = IF Seconds(activeTabInfo, now) > 0 THEN accruedBy \cup {user} ELSE accruedBy

\* No tab is in the foreground since endTime.
NoForeground(endTime) == [EmptyTabInfo EXCEPT !.startTime = endTime]

\* The dwell interval the tab and focus events themselves delimit: it ends
\* now, and newFg is in the foreground from now on.
Dwell(newFg) ==
    /\ ideal' = ideal + Seconds(fg, now)
    /\ fg' = newFg

Init ==
    /\ stored \in Users \cup {NullUser}
    /\ user = stored
    /\ isLoggedIn = (stored # NullUser)
    /\ isRecording = FALSE
    /\ recordingTabId = NoTab
    /\ recordingTabUrl = NullUrl
    /\ recordingId = NullId
    /\ doc = FALSE
    /\ recorder = FALSE
    /\ offIn = <<>>
    /\ bgIn = <<>>
    /\ tabUrl = [t \in Tabs |-> IF t = 1 THEN MeetUrl ELSE OtherUrl]
    /\ tasks = EmptyBag
    /\ resp = NoResp
    /\ endCalls = <<>>
    /\ streamCalls = {}
    /\ stopInitiator = <<>>
    /\ clock = 1
    /\ events = 0
    /\ now = WORKING_HOUR_START * HourLen
    /\ activeTab = 1
    /\ activeTabInfo = EmptyTabInfo
    /\ dailyActivityLog = EmptyLog
    /\ storedLog = EmptyLog
    /\ fg = EmptyTabInfo
    /\ ideal = 0
    /\ tabEventsOnly = TRUE
    /\ creditedTo = now
    /\ docOf = NullId
    /\ chunkOf = NullId
    /\ accruedBy = {}
    /\ storedBy = {}
    /\ popup = ClosedPopup

\* ------------------------------------------------- handleStopCapture
\* handleStopCapture returned to its caller: handleStartCapture's catch block
\* rethrows, handleLogout goes on to clear the session, the stopCapture
\* message answers success, the other triggers ignore the result.
StopReturn(o, t) ==
    CASE t.kind = "startCapture" ->
            /\ resp' = Response("startCapture", FALSE, t.err)
            /\ End(o)
            /\ UNCHANGED <<user, isLoggedIn>>
      [] t.kind = "logout" ->
            /\ isLoggedIn' = FALSE
            /\ user' = NullUser
            /\ Move(o, At(t, "o_remove"))
            /\ UNCHANGED resp
      [] t.kind = "stopCapture" ->
            /\ resp' = Response("stopCapture", TRUE, NoErr)
            /\ End(o)
            /\ UNCHANGED <<user, isLoggedIn>>
      [] OTHER ->
            /\ End(o)
            /\ UNCHANGED <<resp, user, isLoggedIn>>

\* handleStopCapture rejected with err: the startCapture and stopCapture
\* messages answer the failure; handleLogout and the relay and tab listeners
\* have no catch, the rejection is unhandled and nothing is answered.
StopRaise(o, t, err) ==
    /\ resp' = IF t.kind \in {"startCapture", "stopCapture"}
               THEN Response(t.kind, FALSE, err)
               ELSE Response("unhandledRejection", FALSE, err)
    /\ End(o)

\* The reset of lines 312-316 without line 314: recordingTabUrl is kept.
StopResetKeepsUrl(o, t) ==
    /\ isRecording' = FALSE
    /\ recordingTabId' = NoTab
    /\ recordingTabUrl' = recordingTabUrl
    /\ recordingId' = NullId
    /\ stopInitiator' = <<>>
    /\ IF user # NullUser /\ recordingId # NullId
       THEN /\ endCalls' = Append(endCalls, [userId |-> user,
                                             recordingId |-> recordingId,
                                             reason |-> Reason(t)])
            /\ Move(o, At(t, "t_fetch"))
       ELSE /\ endCalls' = endCalls
            /\ Move(o, At(t, "t_notify"))

\* Lines 312-331: reset the recording, notify the backend if a user and a
\* recording id exist, then notifyPopupStatus.
StopReset(o, t) ==
    /\ isRecording' = FALSE
    /\ recordingTabId' = NoTab
    /\ recordingTabUrl' = NullUrl
    /\ recordingId' = NullId
    /\ stopInitiator' = <<>>
    /\ IF user # NullUser /\ recordingId # NullId
       THEN /\ endCalls' = Append(endCalls, [userId |-> user,
                                             recordingId |-> recordingId,
                                             reason |-> Reason(t)])
            /\ Move(o, At(t, "t_fetch"))
       ELSE /\ endCalls' = endCalls
            /\ Move(o, At(t, "t_notify"))

\* Lines 306-310: clear the badge of the recorded tab, if there is one.
StopBadge(o, t) ==
    IF recordingTabId # NoTab
    THEN /\ Move(o, At(t, "t_badge"))
         /\ UNCHANGED <<recording, endCalls, stopInitiator>>
    ELSE StopReset(o, t)

\* Lines 289-298: relay stopOffscreenCapture (lost when no document listens),
\* then ask whether the offscreen document exists.
StopRelay(o, t) ==
    /\ offIn' = IF doc THEN Append(offIn, "stopOffscreenCapture") ELSE offIn
    /\ stopInitiator' = IF recordingId # NullId /\ stopInitiator = <<>>
                        THEN Reason(t) ELSE stopInitiator
    /\ Move(o, At(t, "t_query"))

\* Line 285: `!isRecording && !await hasOffscreenDocument(...)`: the query is
\* made, and the handler suspends, only when not recording.
StopEnter(o, t) ==
    IF isRecording
    THEN StopRelay(o, t)
    ELSE /\ Move(o, At(t, "t_query0"))
         /\ UNCHANGED <<offIn, stopInitiator>>

\* The stopCapture message.
StopCapture ==
    /\ CanSpawn
    /\ events' = events + 1
    /\ StopEnter(Task("stopCapture", NoTab, NullUrl), Task("stopCapture", NoTab, NullUrl))
    /\ UNCHANGED <<tracker, session, recording, doc, recorder, bgIn, tabUrl, resp, backend,
                   clock, producer, owners, popup>>

\* Line 285 resolves: clients.matchAll rejects (the stop raises), or reports
\* no document (early return), or reports one.
ResumeStopQuery0 ==
    \E t \in Suspended :
        /\ t.pc = "t_query0"
        /\ \/ /\ StopRaise(t, t, ErrQuery)
              /\ UNCHANGED <<user, isLoggedIn, offIn, stopInitiator>>
           \/ /\ ~doc
              /\ StopReturn(t, t)
              /\ UNCHANGED <<offIn, stopInitiator>>
           \/ /\ doc
              /\ StopRelay(t, t)
              /\ UNCHANGED <<user, isLoggedIn, resp>>
        /\ UNCHANGED <<tracker, stored, recording, doc, recorder, bgIn, tabUrl, backend,
                       clock, events, producer, owners, popup>>

\* Line 298 resolves: a failed query is caught; a document found is closed.
ResumeStopQuery ==
    \E t \in Suspended :
        /\ t.pc = "t_query"
        /\ \/ /\ doc
              /\ Move(t, At(t, "t_close"))
              /\ UNCHANGED <<recording, endCalls, stopInitiator>>
           \/ /\ ~doc
              /\ StopBadge(t, t)
           \/ StopBadge(t, t)
        /\ UNCHANGED <<tracker, session, surface, bgIn, tabUrl, resp, streamCalls, clock,
                       events, producer, owners, popup>>

\* Line 299 resolves: the document is closed, or there was none and the
\* rejection is caught.
ResumeStopClose ==
    \E t \in Suspended :
        /\ t.pc = "t_close"
        /\ doc' = FALSE
        /\ docOf' = NullId
        /\ recorder' = FALSE
        /\ offIn' = <<>>
        /\ StopBadge(t, t)
        /\ UNCHANGED <<tracker, session, bgIn, tabUrl, resp, streamCalls, clock, events,
                       chunkOf, owners, popup>>

\* Line 308 resolves (a failure is caught and ignored).
ResumeStopBadge ==
    \E t \in Suspended :
        /\ t.pc = "t_badge"
        /\ StopReset(t, t)
        /\ UNCHANGED <<tracker, session, surface, bgIn, tabUrl, resp, streamCalls, clock,
                       events, producer, owners, popup>>

\* Line 320 resolves (a failure is caught and logged), notifyPopupStatus next.
ResumeStopFetch ==
    \E t \in Suspended :
        /\ t.pc = "t_fetch"
        /\ Move(t, At(t, "t_notify"))
        /\ UNCHANGED <<tracker, session, recording, surface, bgIn, tabUrl, resp, backend,
                       stopInitiator, clock, events, producer, owners, popup>>

\* Line 331 resolves: handleStopCapture returns.
ResumeStopNotify ==
    \E t \in Suspended :
        /\ t.pc = "t_notify"
        /\ StopReturn(t, t)
        /\ UNCHANGED <<tracker, stored, recording, surface, bgIn, tabUrl, backend,
                       stopInitiator, clock, events, producer, owners, popup>>

\* ------------------------------------------------ handleStartCapture
\* Lines 277-281: the catch block runs the stop path with the error's message
\* and rethrows once the stop has returned.
StartCatch(o, t, err) == StopEnter(o, [t EXCEPT !.err = err])

\* handleStartCapture without the login check of line 232.
StartCaptureNoLoginCheck(tabId) ==
    \/ /\ isRecording
       /\ CanHandle
       /\ events' = events + 1
       /\ resp' = Response("startCapture", FALSE, ErrAlready)
       /\ UNCHANGED <<tracker, session, recording, surface, bgIn, tabUrl, tasks, backend,
                      stopInitiator, clock, producer, owners, popup>>
    \/ /\ ~isRecording
       /\ CanSpawn
       /\ events' = events + 1
       /\ Move(Task("startCapture", tabId, NullUrl), At(Task("startCapture", tabId, NullUrl), "s_tabget"))
       /\ UNCHANGED <<tracker, session, recording, surface, bgIn, tabUrl, resp, backend,
                      stopInitiator, clock, producer, owners, popup>>

\* The startCapture message: the two precondition checks of lines 232-233
\* answer at once; otherwise chrome.tabs.get is called.
StartCapture(tabId) ==
    \/ /\ ~isLoggedIn
       /\ CanHandle
       /\ events' = events + 1
       /\ resp' = Response("startCapture", FALSE, ErrLogin)
       /\ UNCHANGED <<tracker, session, recording, surface, bgIn, tabUrl, tasks, backend,
                      stopInitiator, clock, producer, owners, popup>>
    \/ /\ isLoggedIn
       /\ isRecording
       /\ CanHandle
       /\ events' = events + 1
       /\ resp' = Response("startCapture", FALSE, ErrAlready)
       /\ UNCHANGED <<tracker, session, recording, surface, bgIn, tabUrl, tasks, backend,
                      stopInitiator, clock, producer, owners, popup>>
    \/ /\ isLoggedIn
       /\ ~isRecording
       /\ CanSpawn
       /\ events' = events + 1
       /\ Move(Task("startCapture", tabId, NullUrl), At(Task("startCapture", tabId, NullUrl), "s_tabget"))
       /\ UNCHANGED <<tracker, session, recording, surface, bgIn, tabUrl, resp, backend,
                      stopInitiator, clock, producer, owners, popup>>

\* The startCapture message without a tabId, lines 93 and 101-103: answered at
\* once, handleStartCapture is not called.
StartCaptureMissingTabId ==
    /\ CanHandle
    /\ events' = events + 1
    /\ resp' = Response("startCapture", FALSE, ErrMissingTabId)
    /\ UNCHANGED <<tracker, session, recording, surface, bgIn, tabUrl, tasks, backend,
                   stopInitiator, clock, producer, owners, popup>>

\* Line 236 resolves: no such tab, a tab that is no meeting, or a meeting tab
\* (hasOffscreenDocument is asked next).
ResumeStartTabGet ==
    \E t \in Suspended :
        /\ t.pc = "s_tabget"
        /\ \/ /\ t.tab \notin Tabs
              /\ StartCatch(t, t, ErrNoTab)
           \/ /\ t.tab \in Tabs
              /\ ~IsMeetingUrl(tabUrl[t.tab])
              /\ StartCatch(t, [t EXCEPT !.url = tabUrl[t.tab]], ErrUnsupported)
           \/ /\ t.tab \in Tabs
              /\ IsMeetingUrl(tabUrl[t.tab])
              /\ Move(t, [t EXCEPT !.pc = "s_query", !.url = tabUrl[t.tab]])
              /\ UNCHANGED <<offIn, stopInitiator>>
        /\ UNCHANGED <<tracker, session, recording, doc, recorder, bgIn, tabUrl, resp,
                       backend, clock, events, producer, owners, popup>>

\* Line 243 resolves: the query fails, finds a stale document (closed next)
\* or finds none (the stream id is asked for next).
ResumeStartQuery ==
    \E t \in Suspended :
        /\ t.pc = "s_query"
        /\ \/ StartCatch(t, t, ErrQuery)
           \/ /\ doc
              /\ Move(t, At(t, "s_close"))
              /\ UNCHANGED <<offIn, stopInitiator>>
           \/ /\ ~doc
              /\ Move(t, At(t, "s_stream"))
              /\ UNCHANGED <<offIn, stopInitiator>>
        /\ UNCHANGED <<tracker, session, recording, doc, recorder, bgIn, tabUrl, resp,
                       backend, clock, events, producer, owners, popup>>

\* Line 246 resolves: the stale document is closed, or it is gone already
\* and closeDocument rejects.
ResumeStartClose ==
    \E t \in Suspended :
        /\ t.pc = "s_close"
        /\ \/ /\ doc
              /\ doc' = FALSE
              /\ docOf' = NullId
              /\ recorder' = FALSE
              /\ offIn' = <<>>
              /\ Move(t, At(t, "s_stream"))
              /\ UNCHANGED stopInitiator
           \/ /\ ~doc
              /\ StartCatch(t, t, ErrClose)
              /\ UNCHANGED <<doc, docOf, recorder>>
        /\ UNCHANGED <<tracker, session, recording, bgIn, tabUrl, resp, backend, clock,
                       events, chunkOf, owners, popup>>

\* Line 249 resolves with a stream id or rejects.
ResumeStartStream ==
    \E t \in Suspended :
        /\ t.pc = "s_stream"
        /\ \/ /\ Move(t, At(t, "s_create"))
              /\ UNCHANGED <<offIn, stopInitiator>>
           \/ StartCatch(t, t, ErrStream)
        /\ UNCHANGED <<tracker, session, recording, doc, recorder, bgIn, tabUrl, resp,
                       backend, clock, events, producer, owners, popup>>

\* Lines 251-275: createDocument rejects when a document exists; otherwise the
\* document is created, startOffscreenCapture is relayed, the recording state
\* is set and notifyPopupStatus is awaited.
ResumeStartCreate ==
    \E t \in Suspended :
        /\ t.pc = "s_create"
        /\ \/ /\ doc
              /\ StartCatch(t, t, ErrCreate)
              /\ UNCHANGED <<recording, doc, docOf, recorder, clock>>
           \/ /\ ~doc
              /\ doc' = TRUE
              /\ docOf' = MakeRecordingId(user, clock)
              /\ recorder' = FALSE
              /\ offIn' = <<"startOffscreenCapture">>
              /\ isRecording' = TRUE
              /\ recordingTabId' = t.tab
              /\ recordingTabUrl' = t.url
              /\ recordingId' = MakeRecordingId(user, clock)
              /\ clock' = clock + 1
              /\ stopInitiator' = <<>>
              /\ Move(t, At(t, "s_notify"))
        /\ UNCHANGED <<tracker, session, bgIn, tabUrl, resp, backend, events, chunkOf,
                       owners, popup>>

\* Line 275 resolves: handleStartCapture returns and success is answered.
ResumeStartNotify ==
    \E t \in Suspended :
        /\ t.pc = "s_notify"
        /\ End(t)
        /\ resp' = Response("startCapture", TRUE, NoErr)
        /\ UNCHANGED <<tracker, session, recording, surface, bgIn, tabUrl, backend,
                       stopInitiator, clock, events, producer, owners, popup>>

\* ------------------------------------------------------- handleLogin
\* Lines 197-204: the catch block forces the session to logged out, removes the
\* stored session, notifies and rethrows.
LoginCatch(t, err) ==
    /\ isLoggedIn' = FALSE
    /\ user' = NullUser
    /\ Move(t, [t EXCEPT !.pc = "l_remove", !.err = err])

\* The login message: answered at once when logged in; otherwise the
\* interactive flow is launched.
Login ==
    \/ /\ isLoggedIn
       /\ CanHandle
       /\ events' = events + 1
       /\ resp' = Response("login", TRUE, NoErr)
       /\ UNCHANGED <<tracker, session, recording, surface, bgIn, tabUrl, tasks, backend,
                      stopInitiator, clock, producer, owners, popup>>
    \/ /\ ~isLoggedIn
       /\ CanSpawn
       /\ events' = events + 1
       /\ Move(Task("login", NoTab, NullUrl), At(Task("login", NoTab, NullUrl), "l_auth"))
       /\ UNCHANGED <<tracker, session, recording, surface, bgIn, tabUrl, resp, backend,
                      stopInitiator, clock, producer, owners, popup>>

\* Line 156 resolves: the flow was cancelled, returned no code, or returned
\* one (the backend exchange is made next).
ResumeLoginAuth ==
    \E t \in Suspended :
        /\ t.pc = "l_auth"
        /\ \/ LoginCatch(t, ErrCancelled)
           \/ LoginCatch(t, ErrNoCode)
           \/ /\ Move(t, At(t, "l_fetch"))
              /\ UNCHANGED <<user, isLoggedIn>>
        /\ UNCHANGED <<tracker, stored, recording, surface, bgIn, tabUrl, resp, backend,
                       stopInitiator, clock, events, producer, owners, popup>>

\* Lines 174-191: the exchange fails, succeeds without a user, or returns the
\* user: the session is set and storage.set({user, isLoggedIn}) is called.
ResumeLoginFetch ==
    \E t \in Suspended :
        /\ t.pc = "l_fetch"
        /\ \/ LoginCatch(t, ErrExchange)
           \/ LoginCatch(t, ErrNoUser)
           \/ \E u \in Users :
                /\ user' = u
                /\ isLoggedIn' = TRUE
                /\ Move(t, [t EXCEPT !.pc = "l_set", !.usr = u])
        /\ UNCHANGED <<tracker, stored, recording, surface, bgIn, tabUrl, resp, backend,
                       stopInitiator, clock, events, producer, owners, popup>>

\* Line 191 resolves: the session handed to storage.set is stored.
ResumeLoginSet ==
    \E t \in Suspended :
        /\ t.pc = "l_set"
        /\ stored' = t.usr
        /\ Move(t, At(t, "l_notify"))
        /\ UNCHANGED <<tracker, user, isLoggedIn, recording, surface, bgIn, tabUrl, resp,
                       backend, stopInitiator, clock, events, producer, owners, popup>>

\* Line 201 resolves: the stored session is removed.
ResumeLoginRemove ==
    \E t \in Suspended :
        /\ t.pc = "l_remove"
        /\ stored' = NullUser
        /\ Move(t, At(t, "l_notify"))
        /\ UNCHANGED <<tracker, user, isLoggedIn, recording, surface, bgIn, tabUrl, resp,
                       backend, stopInitiator, clock, events, producer, owners, popup>>

\* Lines 192 and 202 resolve: handleLogin returns, or rethrows what it caught.
ResumeLoginNotify ==
    \E t \in Suspended :
        /\ t.pc = "l_notify"
        /\ End(t)
        /\ resp' = Response("login", t.err = NoErr, t.err)
        /\ UNCHANGED <<tracker, session, recording, surface, bgIn, tabUrl, backend,
                       stopInitiator, clock, events, producer, owners, popup>>

\* ------------------------------------------------------ handleLogout
\* The logout message: a recording is stopped first (line 210); otherwise the
\* session is cleared at once (lines 213-215).
Logout ==
    /\ CanSpawn
    /\ events' = events + 1
    /\ IF isRecording
       THEN /\ StopEnter(Task("logout", NoTab, NullUrl), Task("logout", NoTab, NullUrl))
            /\ UNCHANGED <<user, isLoggedIn>>
       ELSE /\ isLoggedIn' = FALSE
            /\ user' = NullUser
            /\ Move(Task("logout", NoTab, NullUrl), At(Task("logout", NoTab, NullUrl), "o_remove"))
            /\ UNCHANGED <<offIn, stopInitiator>>
    /\ UNCHANGED <<tracker, stored, recording, doc, recorder, bgIn, tabUrl, resp, backend,
                   clock, producer, owners, popup>>

\* Line 215 resolves: the stored session is removed.  When the removal rejects,
\* handleLogout rejects; line 87 has no catch, so nothing is answered.
ResumeLogoutRemove ==
    \E t \in Suspended :
        /\ t.pc = "o_remove"
        /\ \/ /\ stored' = NullUser
              /\ Move(t, At(t, "o_notify"))
              /\ UNCHANGED resp
           \/ /\ stored' = stored
              /\ End(t)
              /\ resp' = Response("unhandledRejection", FALSE, ErrStorage)
        /\ UNCHANGED <<tracker, user, isLoggedIn, recording, surface, bgIn, tabUrl,
                       backend, stopInitiator, clock, events, producer, owners, popup>>

\* Line 216 resolves: handleLogout returns and success is answered.
ResumeLogoutNotify ==
    \E t \in Suspended :
        /\ t.pc = "o_notify"
        /\ End(t)
        /\ resp' = Response("logout", TRUE, NoErr)
        /\ UNCHANGED <<tracker, session, recording, surface, bgIn, tabUrl, backend,
                       stopInitiator, clock, events, producer, owners, popup>>

\* ------------------------------------------- tabs.onUpdated listener
\* A tab navigates to another URL.  Lines 406-414: when it is the tab of
\* activeTabInfo and the URL is new, the interval is added and activeTabInfo
\* takes the URL.  Lines 415-417: when it is the recorded tab, recordingTabUrl
\* is overwritten and notifyPopupStatus is awaited.
TabUpdated(tabId, url) ==
    /\ tabUrl[tabId] # url
    /\ tabUrl' = [tabUrl EXCEPT ![tabId] = url]
    /\ events' = events + 1
    /\ IF tabId = activeTabInfo.tabId /\ activeTabInfo.url # url
       THEN /\ Accrue
            /\ activeTabInfo' = [activeTabInfo EXCEPT !.url = url,
                                                      !.domain = getDomain(url),
                                                      !.startTime = now]
       ELSE UNCHANGED <<dailyActivityLog, creditedTo, activeTabInfo, accruedBy>>
    /\ IF tabId = fg.tabId
       THEN Dwell([fg EXCEPT !.url = url, !.domain = getDomain(url), !.startTime = now])
       ELSE UNCHANGED <<ideal, fg>>
    /\ IF isRecording /\ tabId = recordingTabId
       THEN /\ CanSpawn
            /\ recordingTabUrl' = url
            /\ Move(Task("tabUpdated", tabId, url), At(Task("tabUpdated", tabId, url), "n_notify"))
       ELSE /\ CanHandle
            /\ UNCHANGED <<recordingTabUrl, tasks>>
    /\ UNCHANGED <<session, isRecording, recordingTabId, recordingId, surface, bgIn, resp,
                   backend, stopInitiator, clock, now, activeTab, storedLog, tabEventsOnly,
                   producer, storedBy, popup>>

\* Line 417 resolves.  Line 418 reads the global recordingTabUrl: null (a stop
\* ran meanwhile) throws a TypeError nobody catches; a URL off the allow-list
\* runs the stop path.
ResumeTabNotify ==
    \E t \in Suspended :
        /\ t.pc = "n_notify"
        /\ \/ /\ recordingTabUrl = NullUrl
              /\ StopRaise(t, t, ErrTypeError)
              /\ UNCHANGED <<offIn, stopInitiator>>
           \/ /\ recordingTabUrl # NullUrl
              /\ IsMeetingUrl(recordingTabUrl)
              /\ End(t)
              /\ UNCHANGED <<resp, offIn, stopInitiator>>
           \/ /\ recordingTabUrl # NullUrl
              /\ ~IsMeetingUrl(recordingTabUrl)
              /\ StopEnter(t, t)
              /\ UNCHANGED resp
        /\ UNCHANGED <<tracker, session, recording, doc, recorder, bgIn, tabUrl, backend,
                       clock, events, producer, owners, popup>>

\* ------------------------------------------------- relay messages in
\* The audioChunk message without the state checks of lines 114 and 336.
RecvAudioChunkNoStateCheck ==
    /\ Next1(bgIn, "audioChunk")
    /\ bgIn' = Tail(bgIn)
    /\ CanHandle
    /\ events' = events + 1
    /\ streamCalls' = streamCalls \cup {[userId |-> user, recordingId |-> recordingId]}
    /\ chunkOf' = NullId
    /\ UNCHANGED <<tracker, session, recording, surface, tabUrl, tasks, resp, endCalls,
                   stopInitiator, clock, docOf, owners, popup>>

\* Lines 113-117 and 335-349: a chunk is forwarded under the current user and
\* recording id, or dropped.
RecvAudioChunk ==
    /\ Next1(bgIn, "audioChunk")
    /\ bgIn' = Tail(bgIn)
    /\ CanHandle
    /\ events' = events + 1
    /\ streamCalls' =
         IF isRecording /\ isLoggedIn /\ user # NullUser /\ recordingId # NullId
         THEN streamCalls \cup {[userId |-> user, recordingId |-> recordingId]}
         ELSE streamCalls
    /\ chunkOf' = NullId
    /\ UNCHANGED <<tracker, session, recording, surface, tabUrl, tasks, resp, endCalls,
                   stopInitiator, clock, docOf, owners, popup>>

\* Lines 118-121: the stop path runs whatever the state.
RecvRecordingError ==
    /\ Next1(bgIn, "recordingError")
    /\ bgIn' = Tail(bgIn)
    /\ CanSpawn
    /\ events' = events + 1
    /\ StopEnter(Task("recordingError", NoTab, NullUrl), Task("recordingError", NoTab, NullUrl))
    /\ UNCHANGED <<tracker, session, recording, doc, recorder, tabUrl, resp, backend,
                   clock, producer, owners, popup>>

\* Lines 122-127: the stop path runs only while recording.
RecvRecordingStopped ==
    /\ Next1(bgIn, "recordingStopped")
    /\ bgIn' = Tail(bgIn)
    /\ events' = events + 1
    /\ \/ /\ isRecording
          /\ CanSpawn
          /\ StopEnter(Task("recordingStopped", NoTab, NullUrl), Task("recordingStopped", NoTab, NullUrl))
       \/ /\ ~isRecording
          /\ CanHandle
          /\ UNCHANGED <<offIn, stopInitiator, tasks>>
    /\ UNCHANGED <<tracker, session, recording, doc, recorder, tabUrl, resp, backend,
                   clock, producer, owners, popup>>

\* ---------------------------------------------------- offscreen.js
\* startCapture: ignored while recording; getUserMedia succeeds and the
\* recorder starts, or fails and recordingError is sent.
OffStart ==
    /\ Next1(offIn, "startOffscreenCapture")
    /\ offIn' = Tail(offIn)
    /\ \/ /\ recorder
          /\ UNCHANGED <<recorder, bgIn>>
       \/ /\ ~recorder
          /\ recorder' = TRUE
          /\ UNCHANGED bgIn
       \/ /\ ~recorder
          /\ bgIn' = Append(bgIn, "recordingError")
          /\ UNCHANGED recorder
    /\ UNCHANGED <<tracker, session, recording, doc, tabUrl, tasks, resp, backend,
                   stopInitiator, clock, events, producer, owners, popup>>

\* stopCapture: a running recorder is stopped, its onstop sends
\* recordingStopped.
OffStop ==
    /\ Next1(offIn, "stopOffscreenCapture")
    /\ offIn' = Tail(offIn)
    /\ recorder' = FALSE
    /\ bgIn' = IF recorder THEN Append(bgIn, "recordingStopped") ELSE bgIn
    /\ UNCHANGED <<tracker, session, recording, doc, tabUrl, tasks, resp, backend,
                   stopInitiator, clock, events, producer, owners, popup>>

\* ondataavailable: a chunk is sent (one chunk is in flight at a time); the
\* message of line 65 carries the chunk alone, no recording id.
OffChunk ==
    /\ recorder
    /\ ~InSeq("audioChunk", bgIn)
    /\ bgIn' = Append(bgIn, "audioChunk")
    /\ chunkOf' = docOf
    /\ UNCHANGED <<tracker, session, recording, surface, tabUrl, tasks, resp, backend,
                   stopInitiator, clock, events, docOf, owners, popup>>

\* onerror: recordingError is sent; cleanupStreams stops the recorder, whose
\* onstop sends recordingStopped.
OffError ==
    /\ recorder
    /\ recorder' = FALSE
    /\ bgIn' = bgIn \o <<"recordingError", "recordingStopped">>
    /\ UNCHANGED <<tracker, session, recording, doc, offIn, tabUrl, tasks, resp, backend,
                   stopInitiator, clock, events, producer, owners, popup>>

\* ------------------------------------------------- tracker listeners
\* The wall clock advances one second.
StartTimes == {WORKING_HOUR_START * HourLen - 2, WORKING_HOUR_END * HourLen - 3}
StartOf(t) == CHOOSE b \in StartTimes : b <= t /\ \A c \in StartTimes : c <= t => c <= b

Tick ==
    /\ now - StartOf(now) < MaxTicks
    /\ now' = now + 1
    /\ UNCHANGED <<session, recording, surface, bgIn, tabUrl, tasks, resp, backend,
                   stopInitiator, clock, events, activeTab, activeTabInfo,
                   dailyActivityLog, storedLog, fg, ideal, tabEventsOnly, creditedTo,
                   producer, owners, popup>>

\* tabs.onActivated, lines 388-393: the interval of the previous tab is added
\* and chrome.tabs.get is awaited.
TabActivated(tabId) ==
    /\ CanSpawn
    /\ events' = events + 1
    /\ Accrue
    /\ activeTab' = tabId
    /\ Dwell(TabInfo(tabId, now))
    /\ Move(Task("tabActivated", tabId, NullUrl),
            [Task("tabActivated", tabId, NullUrl) EXCEPT !.pc = "a_tabget", !.end = now])
    /\ UNCHANGED <<session, recording, surface, bgIn, tabUrl, resp, backend, stopInitiator,
                   clock, now, activeTabInfo, storedLog, tabEventsOnly, producer, storedBy, popup>>

\* Line 393 resolves: activeTabInfo is built with the endTime taken at the
\* event; when the tab has been closed meanwhile the lookup rejects and
\* activeTabInfo is emptied (line 401).
ResumeTabActivated ==
    \E t \in Suspended :
        /\ t.pc = "a_tabget"
        /\ \/ /\ activeTabInfo' = TabInfo(t.tab, t.end)
              /\ UNCHANGED fg
           \/ /\ activeTabInfo' = EmptyTabInfo
              /\ fg' = IF fg.tabId = t.tab THEN NoForeground(t.end) ELSE fg
        /\ End(t)
        /\ UNCHANGED <<session, recording, surface, bgIn, tabUrl, resp, backend,
                       stopInitiator, clock, events, now, activeTab, dailyActivityLog,
                       storedLog, ideal, tabEventsOnly, creditedTo, producer, owners,
                       popup>>

\* windows.onFocusChanged, lines 426-434: the interval is added; losing focus
\* empties activeTabInfo at once, gaining it awaits chrome.tabs.query.
FocusChanged(windowId) ==
    /\ events' = events + 1
    /\ Accrue
    /\ IF windowId = WINDOW_ID_NONE
       THEN /\ CanHandle
            /\ activeTabInfo' = EmptyTabInfo
            /\ Dwell(NoForeground(now))
            /\ UNCHANGED tasks
       ELSE /\ CanSpawn
            /\ Dwell(TabInfo(activeTab, now))
            /\ Move(Task("focusChanged", NoTab, NullUrl),
                    [Task("focusChanged", NoTab, NullUrl) EXCEPT !.pc = "f_query", !.end = now])
            /\ UNCHANGED activeTabInfo
    /\ UNCHANGED <<session, recording, surface, bgIn, tabUrl, resp, backend, stopInitiator,
                   clock, now, activeTab, storedLog, tabEventsOnly, producer, storedBy, popup>>

\* Line 434 resolves with the window's active tab, or with none or a
\* rejection (lines 443, 446).
ResumeFocusQuery ==
    \E t \in Suspended :
        /\ t.pc = "f_query"
        /\ \/ /\ activeTabInfo' = TabInfo(activeTab, t.end)
              /\ UNCHANGED fg
           \/ /\ activeTabInfo' = EmptyTabInfo
              /\ fg' = NoForeground(t.end)
        /\ End(t)
        /\ UNCHANGED <<session, recording, surface, bgIn, tabUrl, resp, backend,
                       stopInitiator, clock, events, now, activeTab, dailyActivityLog,
                       storedLog, ideal, tabEventsOnly, creditedTo, producer, owners,
                       popup>>

\* alarms.onAlarm, ACTIVITY_LOG_ALARM, lines 452-461: the interval is added.
\* sendActivityLog returns at once when logged out or when the log is empty,
\* and the log is cleared and the empty log handed to storage.set; otherwise
\* the batch is built from the log and the fetch is awaited.  chrome.storage
\* applies writes in the order they are made, so a write takes effect when it is
\* made.  An alarm does not fire again while its handler is suspended.
DailyAlarm ==
    /\ CanSpawn
    /\ ~\E t \in Suspended : t.kind = "dailyAlarm"
    /\ events' = events + 1
    /\ tabEventsOnly' = FALSE
    /\ creditedTo' = IF Seconds(activeTabInfo, now) > 0 THEN now ELSE creditedTo
    /\ IF ~isLoggedIn \/ user = NullUser \/ updateActivity(activeTabInfo, now) = EmptyLog
       THEN /\ dailyActivityLog' = EmptyLog
            /\ storedLog' = EmptyLog
            /\ accruedBy' = {}
            /\ storedBy' = {}
            /\ Move(Task("dailyAlarm", NoTab, NullUrl),
                    [Task("dailyAlarm", NoTab, NullUrl) EXCEPT !.pc = "d_set", !.end = now])
       ELSE /\ dailyActivityLog' = updateActivity(activeTabInfo, now)
            /\ storedLog' = storedLog
            /\ accruedBy' = IF Seconds(activeTabInfo, now) > 0
                            THEN accruedBy \cup {user} ELSE accruedBy
            /\ storedBy' = storedBy
            /\ Move(Task("dailyAlarm", NoTab, NullUrl),
                    [Task("dailyAlarm", NoTab, NullUrl) EXCEPT
                        !.pc = "d_fetch", !.end = now, !.usr = user,
                        !.log = updateActivity(activeTabInfo, now)])
    /\ UNCHANGED <<session, recording, surface, bgIn, tabUrl, resp, backend, stopInitiator,
                   clock, now, activeTab, activeTabInfo, fg, ideal, producer, popup>>

\* The daily flush keeping the log after its send attempt.
ResumeDailyFetchKeepsLog ==
    \E t \in Suspended :
        /\ t.pc = "d_fetch"
        /\ storedLog' = dailyActivityLog
        /\ storedBy' = accruedBy
        /\ UNCHANGED accruedBy
        /\ Move(t, At(t, "d_set"))
        /\ UNCHANGED <<session, recording, surface, bgIn, tabUrl, resp, backend,
                       stopInitiator, clock, events, now, activeTab, activeTabInfo,
                       dailyActivityLog, fg, ideal, tabEventsOnly, creditedTo, producer,
                       popup>>

\* Line 496 resolves (success, a non-2xx answer or a network error, all only
\* logged): lines 460-461 clear the log and hand the empty log to storage.set.
ResumeDailyFetch ==
    \E t \in Suspended :
        /\ t.pc = "d_fetch"
        /\ dailyActivityLog' = EmptyLog
        /\ storedLog' = EmptyLog
        /\ accruedBy' = {}
        /\ storedBy' = {}
        /\ Move(t, At(t, "d_set"))
        /\ UNCHANGED <<session, recording, surface, bgIn, tabUrl, resp, backend,
                       stopInitiator, clock, events, now, activeTab, activeTabInfo, fg,
                       ideal, tabEventsOnly, creditedTo, producer, popup>>

\* Line 461 resolves: lines 463-465 set startTime to the endTime taken when
\* the alarm fired.
ResumeDailySet ==
    \E t \in Suspended :
        /\ t.pc = "d_set"
        /\ activeTabInfo' = IF activeTabInfo.tabId # NoTab
                            THEN [activeTabInfo EXCEPT !.startTime = t.end]
                            ELSE activeTabInfo
        /\ End(t)
        /\ UNCHANGED <<session, recording, surface, bgIn, tabUrl, resp, backend,
                       stopInitiator, clock, events, now, activeTab, dailyActivityLog,
                       storedLog, fg, ideal, tabEventsOnly, creditedTo, producer, owners,
                       popup>>

\* The periodic save handing the log to storage.set before the interval is
\* added.
PeriodicAlarmSavesFirst ==
    /\ CanSpawn
    /\ ~\E t \in Suspended : t.kind = "periodicAlarm"
    /\ events' = events + 1
    /\ tabEventsOnly' = FALSE
    /\ Accrue
    /\ storedLog' = dailyActivityLog
    /\ storedBy' = accruedBy
    /\ Move(Task("periodicAlarm", NoTab, NullUrl),
            [Task("periodicAlarm", NoTab, NullUrl) EXCEPT
                !.pc = "p_set", !.end = now, !.log = dailyActivityLog])
    /\ UNCHANGED <<session, recording, surface, bgIn, tabUrl, resp, backend, stopInitiator,
                   clock, now, activeTab, activeTabInfo, fg, ideal, producer, popup>>

\* alarms.onAlarm, PERIODIC_SAVE_ALARM, lines 469-473: the interval is added
\* and the log is handed to storage.set.
PeriodicAlarm ==
    /\ CanSpawn
    /\ ~\E t \in Suspended : t.kind = "periodicAlarm"
    /\ events' = events + 1
    /\ tabEventsOnly' = FALSE
    /\ Accrue
    /\ storedLog' = dailyActivityLog'
    /\ storedBy' = accruedBy'
    /\ Move(Task("periodicAlarm", NoTab, NullUrl),
            [Task("periodicAlarm", NoTab, NullUrl) EXCEPT
                !.pc = "p_set", !.end = now, !.log = updateActivity(activeTabInfo, now)])
    /\ UNCHANGED <<session, recording, surface, bgIn, tabUrl, resp, backend, stopInitiator,
                   clock, now, activeTab, activeTabInfo, fg, ideal, producer, popup>>

\* Line 473 resolves: lines 475-477 set startTime to the endTime taken when
\* the alarm fired.
ResumePeriodicSet ==
    \E t \in Suspended :
        /\ t.pc = "p_set"
        /\ activeTabInfo' = IF activeTabInfo.tabId # NoTab
                            THEN [activeTabInfo EXCEPT !.startTime = t.end]
                            ELSE activeTabInfo
        /\ End(t)
        /\ UNCHANGED <<session, recording, surface, bgIn, tabUrl, resp, backend,
                       stopInitiator, clock, events, now, activeTab, dailyActivityLog,
                       storedLog, fg, ideal, tabEventsOnly, creditedTo, producer, owners,
                       popup>>

\* ------------------------------------------------------ process restart
\* The module state of a freshly started process, lines 9-16.
FreshMemory ==
    /\ user' = NullUser
    /\ isLoggedIn' = FALSE
    /\ isRecording' = FALSE
    /\ recordingTabId' = NoTab
    /\ recordingTabUrl' = NullUrl
    /\ recordingId' = NullId
    /\ activeTabInfo' = EmptyTabInfo
    /\ dailyActivityLog' = EmptyLog
    /\ accruedBy' = {}

\* The host tears the idle process down and starts it again for the next
\* event: the module is evaluated anew, no listener of lines 18-28 runs.
Restart ==
    /\ tasks = EmptyBag
    /\ CanHandle
    /\ events' = events + 1
    /\ FreshMemory
    /\ tabEventsOnly' = FALSE
    /\ UNCHANGED <<stored, surface, bgIn, tabUrl, tasks, resp, backend, stopInitiator,
                   clock, now, activeTab, storedLog, fg, ideal, creditedTo, producer,
                   storedBy, popup>>

\* The browser starts: the module is evaluated and runtime.onStartup calls
\* loadState, which awaits storage.get (line 32).
BrowserStartup ==
    /\ tasks = EmptyBag
    /\ CanSpawn
    /\ events' = events + 1
    /\ FreshMemory
    /\ tabEventsOnly' = FALSE
    /\ Move(Task("startup", NoTab, NullUrl), At(Task("startup", NoTab, NullUrl), "ld_get"))
    /\ UNCHANGED <<stored, surface, bgIn, tabUrl, resp, backend, stopInitiator, clock, now,
                   activeTab, storedLog, fg, ideal, creditedTo, producer, storedBy,
                   popup>>

\* Line 32 resolves: lines 33-46 take the session and the log from storage
\* and reset the recording; a rejection is caught (line 48).
ResumeLoadState ==
    \E t \in Suspended :
        /\ t.pc = "ld_get"
        /\ \/ /\ user' = stored
              /\ isLoggedIn' = (stored # NullUser)
              /\ dailyActivityLog' = storedLog
              /\ accruedBy' = storedBy
              /\ isRecording' = FALSE
              /\ recordingTabId' = NoTab
              /\ recordingTabUrl' = NullUrl
              /\ recordingId' = NullId
           \/ UNCHANGED <<user, isLoggedIn, dailyActivityLog, recording, accruedBy>>
        /\ End(t)
        /\ UNCHANGED <<stored, surface, bgIn, tabUrl, resp, backend, stopInitiator, clock,
                       events, now, activeTab, activeTabInfo, storedLog, fg, ideal,
                       tabEventsOnly, creditedTo, producer, storedBy, popup>>

\* The state once the browser has started and loadState has run: the session
\* and the log are the stored ones, no tab is known to be active.
TrackerInit ==
    /\ stored \in Users \cup {NullUser}
    /\ user = stored
    /\ isLoggedIn = (stored # NullUser)
    /\ isRecording = FALSE
    /\ recordingTabId = NoTab
    /\ recordingTabUrl = NullUrl
    /\ recordingId = NullId
    /\ doc = FALSE
    /\ recorder = FALSE
    /\ offIn = <<>>
    /\ bgIn = <<>>
    /\ tabUrl = [t \in Tabs |-> IF t = 1 THEN MeetUrl ELSE OtherUrl]
    /\ tasks = EmptyBag
    /\ resp = NoResp
    /\ endCalls = <<>>
    /\ streamCalls = {}
    /\ stopInitiator = <<>>
    /\ clock = 1
    /\ events = 0
    /\ now \in StartTimes
    /\ activeTab = 1
    /\ activeTabInfo = EmptyTabInfo
    /\ storedLog \in {EmptyLog, SavedLog}
    /\ storedLog # EmptyLog => stored \in {SavedBy, NullUser}
    /\ dailyActivityLog = storedLog
    /\ fg = EmptyTabInfo
    /\ ideal = Total(storedLog)
    /\ tabEventsOnly = TRUE
    /\ creditedTo = now
    /\ docOf = NullId
    /\ chunkOf = NullId
    /\ accruedBy = (IF storedLog = EmptyLog THEN {} ELSE {SavedBy})
    /\ storedBy = accruedBy
    /\ popup = ClosedPopup

TrackerNext ==
    \/ Tick
    \/ \E tabId \in Tabs : TabActivated(tabId)
    \/ ResumeTabActivated
    \/ \E tabId \in Tabs : \E url \in TrackerUrls : TabUpdated(tabId, url)
    \/ \E windowId \in Windows \cup {WINDOW_ID_NONE} : FocusChanged(windowId)
    \/ ResumeFocusQuery
    \/ DailyAlarm
    \/ ResumeDailyFetch
    \/ ResumeDailySet
    \/ PeriodicAlarm
    \/ ResumePeriodicSet
    \/ Login
    \/ ResumeLoginAuth
    \/ ResumeLoginFetch
    \/ ResumeLoginSet
    \/ ResumeLoginRemove
    \/ ResumeLoginNotify
    \/ Logout
    \/ ResumeLogoutRemove
    \/ ResumeLogoutNotify
    \/ Restart
    \/ BrowserStartup
    \/ ResumeLoadState

TrackerSpec == TrackerInit /\ [][TrackerNext]_vars

\* ------------------------------------------------------- popup page
\* The texts the popup writes to its status line and its record button.
StatusIdle == <<"Idle. Start recording in Meet/Zoom tab.">>
StatusLogin == <<"Please log in.">>
StatusChecking == <<"Checking active tab...">>
StatusStarting == <<"Starting recording...">>
StatusStopping == <<"Stopping recording...">>
StatusStopped == <<"Recording stopped.">>
StatusNotMeeting == <<"Not on a Meet or Zoom tab.">>
StatusRecording(url) ==
    <<"Recording meeting on: ", IF url = NullUrl THEN "Unknown" ELSE url[2]>>
StatusErrStart(err) == <<"Error starting: ", err>>
LabelStart == "Start Meeting Recording"
LabelStop == "Stop Recording"

\* updateUI(loggedIn, user, isRecording, recordingTabUrl): logged in, the label
\* and the status follow isRecording and the button is enabled; logged out,
\* only the status changes.
updateUI(p, loggedIn, usr, rec, url) ==
    IF loggedIn /\ usr # NullUser
    THEN [p EXCEPT !.label = IF rec THEN LabelStop ELSE LabelStart,
                   !.status = IF rec THEN StatusRecording(url) ELSE StatusIdle,
                   !.disabled = FALSE]
    ELSE [p EXCEPT !.status = StatusLogin]

\* The popup is opened: DOMContentLoaded asks getStatus, the coordination
\* process answers its fields at once (lines 89-91) and updateUI shows them.
PopupOpened ==
    /\ popup.pc = "closed"
    /\ CanHandle
    /\ events' = events + 1
    /\ popup' = updateUI([ClosedPopup EXCEPT !.pc = "open"],
                         isLoggedIn, user, isRecording, recordingTabUrl)
    /\ UNCHANGED <<tracker, session, recording, surface, bgIn, tabUrl, tasks, resp, backend,
                   stopInitiator, clock, producer, owners>>

\* The record button is clicked: getStatus is sent (line 38).
PopupRecordClick ==
    /\ popup.pc = "open"
    /\ ~popup.disabled
    /\ popup' = [popup EXCEPT !.pc = "c_status"]
    /\ UNCHANGED <<tracker, session, recording, surface, bgIn, tabUrl, tasks, resp, backend,
                   stopInitiator, clock, events, producer, owners>>

\* getStatus is answered and line 38 resumes: while recording the stop branch
\* sends stopCapture with the button disabled (lines 42-45); otherwise the
\* active tab is looked up (lines 56-58).
PopupGetStatus ==
    /\ popup.pc = "c_status"
    /\ CanHandle
    /\ events' = events + 1
    /\ popup' = IF isRecording
                THEN [popup EXCEPT !.pc = "c_stop", !.status = StatusStopping,
                                   !.disabled = TRUE]
                ELSE [popup EXCEPT !.pc = "c_query", !.status = StatusChecking]
    /\ UNCHANGED <<tracker, session, recording, surface, bgIn, tabUrl, tasks, resp, backend,
                   stopInitiator, clock, producer, owners>>

\* Line 58 resolves: on a meeting tab startCapture is sent with the button
\* disabled (lines 60-62); otherwise the status says so (line 68).
PopupTabQueried ==
    /\ popup.pc = "c_query"
    /\ popup' = IF IsMeetingUrl(tabUrl[activeTab])
                THEN [popup EXCEPT !.pc = "c_start", !.tab = activeTab,
                                   !.url = tabUrl[activeTab],
                                   !.status = StatusStarting, !.disabled = TRUE]
                ELSE [popup EXCEPT !.pc = "open", !.status = StatusNotMeeting]
    /\ UNCHANGED <<tracker, session, recording, surface, bgIn, tabUrl, tasks, resp, backend,
                   stopInitiator, clock, events, producer, owners>>

\* The popup's request has not been handled yet.
Unhandled(kind) == resp.action # kind /\ ~\E t \in Suspended : t.kind = kind

\* The startCapture message of line 62 is handled.
PopupStartCapture ==
    /\ popup.pc = "c_start"
    /\ Unhandled("startCapture")
    /\ StartCapture(popup.tab)

\* The answer to startCapture arrives and line 62 resumes.  The answer is not
\* looked at: lines 63-66 show the recording state and close the popup.  The
\* catch block of lines 70-74 runs only when sendMessage itself rejects.
PopupStartAnswered ==
    /\ popup.pc = "c_start"
    /\ resp.action = "startCapture"
    /\ resp' = NoResp
    /\ popup' = [popup EXCEPT !.pc = "closed", !.status = StatusRecording(popup.url),
                              !.label = LabelStop, !.disabled = FALSE]
    /\ UNCHANGED <<tracker, session, recording, surface, bgIn, tabUrl, tasks, backend,
                   stopInitiator, clock, events, producer, owners>>

\* The stopCapture message of line 45 is handled.
PopupStopCapture ==
    /\ popup.pc = "c_stop"
    /\ Unhandled("stopCapture")
    /\ StopCapture

\* The answer to stopCapture arrives and line 45 resumes (lines 46-48).
PopupStopAnswered ==
    /\ popup.pc = "c_stop"
    /\ resp.action = "stopCapture"
    /\ resp' = NoResp
    /\ popup' = [popup EXCEPT !.pc = "open", !.status = StatusStopped,
                              !.label = LabelStart, !.disabled = FALSE]
    /\ UNCHANGED <<tracker, session, recording, surface, bgIn, tabUrl, tasks, backend,
                   stopInitiator, clock, events, producer, owners>>

\* An updatePopupStatus message of a suspended notifyPopupStatus reaches the
\* open popup (lines 79-84).
PopupPushed ==
    /\ popup.pc # "closed"
    /\ \E t \in Suspended : t.pc \in {"s_notify", "t_notify", "l_notify", "o_notify", "n_notify"}
    /\ popup' = updateUI(popup, isLoggedIn, user, isRecording, recordingTabUrl)
    /\ popup' # popup
    /\ UNCHANGED <<tracker, session, recording, surface, bgIn, tabUrl, tasks, resp, backend,
                   stopInitiator, clock, events, producer, owners>>

\* The popup has been opened by a logged-in user on one of two meeting tabs,
\* with no recording or with a recording running on tab 1, and shows the
\* status it was given.
PopupInit ==
    /\ stored \in Users
    /\ user = stored
    /\ isLoggedIn = TRUE
    /\ isRecording \in BOOLEAN
    /\ recordingTabId = (IF isRecording THEN 1 ELSE NoTab)
    /\ recordingTabUrl = (IF isRecording THEN MeetUrl ELSE NullUrl)
    /\ recordingId = (IF isRecording THEN MakeRecordingId(user, 1) ELSE NullId)
    /\ doc = isRecording
    /\ recorder = isRecording
    /\ offIn = <<>>
    /\ bgIn = <<>>
    /\ tabUrl = [t \in Tabs |-> IF t = 1 THEN MeetUrl ELSE ZoomUrl]
    /\ tasks = EmptyBag
    /\ resp = NoResp
    /\ endCalls = <<>>
    /\ streamCalls = {}
    /\ stopInitiator = <<>>
    /\ clock = (IF isRecording THEN 2 ELSE 1)
    /\ events = 0
    /\ now = WORKING_HOUR_START * HourLen
    /\ activeTab \in Tabs
    /\ activeTabInfo = EmptyTabInfo
    /\ dailyActivityLog = EmptyLog
    /\ storedLog = EmptyLog
    /\ fg = EmptyTabInfo
    /\ ideal = 0
    /\ tabEventsOnly = TRUE
    /\ creditedTo = now
    /\ docOf = recordingId
    /\ chunkOf = NullId
    /\ accruedBy = {}
    /\ storedBy = {}
    /\ popup = updateUI([ClosedPopup EXCEPT !.pc = "open"],
                        isLoggedIn, user, isRecording, recordingTabUrl)

PopupNext ==
    \/ PopupOpened
    \/ PopupRecordClick
    \/ PopupGetStatus
    \/ PopupTabQueried
    \/ PopupStartCapture
    \/ PopupStartAnswered
    \/ PopupStopCapture
    \/ PopupStopAnswered
    \/ PopupPushed
    \/ \E tabId \in Tabs : \E url \in Urls : TabUpdated(tabId, url)
    \/ ResumeTabNotify
    \/ ResumeStartTabGet
    \/ ResumeStartQuery
    \/ ResumeStartClose
    \/ ResumeStartStream
    \/ ResumeStartCreate
    \/ ResumeStartNotify
    \/ ResumeStopQuery0
    \/ ResumeStopQuery
    \/ ResumeStopClose
    \/ ResumeStopBadge
    \/ ResumeStopFetch
    \/ ResumeStopNotify

PopupSpec == PopupInit /\ [][PopupNext]_vars

\* ------------------------------------------------------ specification
Next ==
    \/ Login
    \/ Logout
    \/ \E tabId \in Tabs \cup {GoneTab} : StartCapture(tabId)
    \/ StartCaptureMissingTabId
    \/ StopCapture
    \/ \E tabId \in Tabs : \E url \in Urls : TabUpdated(tabId, url)
    \/ RecvAudioChunk
    \/ RecvRecordingError
    \/ RecvRecordingStopped
    \/ ResumeLoginAuth
    \/ ResumeLoginFetch
    \/ ResumeLoginSet
    \/ ResumeLoginRemove
    \/ ResumeLoginNotify
    \/ ResumeLogoutRemove
    \/ ResumeLogoutNotify
    \/ ResumeStartTabGet
    \/ ResumeStartQuery
    \/ ResumeStartClose
    \/ ResumeStartStream
    \/ ResumeStartCreate
    \/ ResumeStartNotify
    \/ ResumeStopQuery0
    \/ ResumeStopQuery
    \/ ResumeStopClose
    \/ ResumeStopBadge
    \/ ResumeStopFetch
    \/ ResumeStopNotify
    \/ ResumeTabNotify
    \/ OffStart
    \/ OffStop
    \/ OffChunk
    \/ OffError

Spec == Init /\ [][Next]_vars

\* ------------------------------------------------------------ claims
\* A startCapture message is handled in this step.
StartHandled == \E tabId \in Tabs \cup {GoneTab} : StartCapture(tabId)

\* The pcs of the start sequence proper and of the stop path.
StartPcs == {"s_tabget", "s_query", "s_close", "s_stream", "s_create"}
StopPcs == {"t_query0", "t_query", "t_close", "t_badge", "t_fetch", "t_notify"}

\* The suspended handler t takes this step.
Steps(t) == CopiesIn(t, tasks') < CopiesIn(t, tasks)

\* The suspended handler t takes this step and is over with it.
Ends(t) == Steps(t) /\ BagCardinality(tasks') < BagCardinality(tasks)

Idle ==
    /\ ~isRecording
    /\ recordingId = NullId
    /\ recordingTabId = NoTab
    /\ recordingTabUrl = NullUrl

\* C1: a startCapture handled while isRecording is answered with the
\* already-recording error and leaves the recording fields and the offscreen
\* document as they were.
C1_StartWhileRecordingRejected ==
    [][(isRecording /\ StartHandled)
        => /\ resp' = Response("startCapture", FALSE, ErrAlready)
           /\ UNCHANGED <<recording, surface, tasks>>]_vars

\* C2: a startCapture handled while a start or a stop is in flight, or while
\* recording, is answered with the already-recording error and starts no
\* second start sequence.
InFlight == \E t \in Suspended : t.kind = "startCapture" \/ t.pc \in StopPcs

C2_SingleFlight ==
    [][((isRecording \/ InFlight) /\ StartHandled)
        => /\ resp' = Response("startCapture", FALSE, ErrAlready)
           /\ UNCHANGED tasks]_vars

\* C3: a stop requested by the stopCapture message never raises, and when it
\* returns the controller is Idle and no offscreen document exists.
C3_StopNeverRaises ==
    [][\A t \in Suspended :
         (t.kind = "stopCapture" /\ Ends(t))
         => /\ resp' = Response("stopCapture", TRUE, NoErr)
            /\ Idle'
            /\ ~doc']_vars

\* C4: while recording, the session is logged in with a user.
C4_RecordingImpliesLoggedIn ==
    isRecording => (isLoggedIn /\ user # NullUser)

\* C5: when a logout that found a recording clears the session, its stop has
\* made the end-of-stream request with reason "Logging out" under the user
\* then logged in.
C5_LogoutStopsFirst ==
    [][\A t \in Suspended :
         (t.kind = "logout" /\ t.pc \in StopPcs /\ Steps(t) /\ ~isLoggedIn' /\ isLoggedIn)
         => \E i \in DOMAIN endCalls :
              /\ endCalls[i].reason = <<"Logging out">>
              /\ endCalls[i].userId = user]_vars

\* C6: the handler of a URL change of the recorded tab to a URL off the
\* allow-list, once notifyPopupStatus has resolved, runs the stop path with
\* reason "Tab navigated away".
C6_NavigationStops ==
    [][\A t \in Suspended :
         (t.kind = "tabUpdated" /\ t.pc = "n_notify" /\ ~IsMeetingUrl(t.url) /\ Steps(t))
         => \E pc \in StopPcs : CopiesIn(At(t, pc), tasks') > CopiesIn(At(t, pc), tasks)]_vars

\* C7: every end-of-stream request carries the id of a recording that has had
\* no such request before, and the reason of the trigger that began the stop of
\* that recording.
C7_EndOfStreamOnceWithReason ==
    [][endCalls' # endCalls
        => /\ endCalls'[Len(endCalls')].reason = stopInitiator
           /\ \A i \in DOMAIN endCalls :
                endCalls[i].recordingId # endCalls'[Len(endCalls')].recordingId]_vars

\* C8: a recording id, once set, changes only by being cleared, and a chunk is
\* forwarded under the id set by the start.
C8_RecordingIdStable ==
    [][(recordingId # NullId => recordingId' \in {recordingId, NullId})
        /\ \A c \in streamCalls' \ streamCalls : c.recordingId = recordingId]_vars

\* C9: a start that found its tab off the allow-list makes no end-of-stream
\* request, creates no document, relays nothing, and ends by answering the
\* unsupported-tab error with the controller Idle.
C9_UnsupportedTabRefused ==
    [][\A t \in Suspended :
         (t.kind = "startCapture" /\ t.err = ErrUnsupported /\ Steps(t))
         => /\ endCalls' = endCalls
            /\ doc' => doc
            /\ InSeq("startOffscreenCapture", offIn') => InSeq("startOffscreenCapture", offIn)
            /\ Ends(t) => /\ resp' = Response("startCapture", FALSE, ErrUnsupported)
                          /\ ~isRecording'
                          /\ recordingId' = NullId]_vars

\* C10: a startCapture handled while logged out is answered with the
\* not-authenticated error; no handler is suspended (no tab lookup is made) and
\* nothing else changes.
C10_StartLoggedOutRefused ==
    [][(~isLoggedIn /\ StartHandled)
        => /\ resp' = Response("startCapture", FALSE, ErrLogin)
           /\ UNCHANGED <<session, recording, surface, bgIn, tabUrl, tasks, backend,
                          stopInitiator, clock>>]_vars

\* A start was refused while logged out.
C10_Witness ==
    /\ ~isLoggedIn
    /\ resp = Response("startCapture", FALSE, ErrLogin)

\* C11: a start that ends by answering a failure answers the error its start
\* sequence caught, after its stop path has run, and leaves the controller Idle
\* with no offscreen document.
C11_FailedStartCleansUp ==
    [][\A t \in Suspended :
         (t.kind = "startCapture" /\ t.pc \in StopPcs /\ Ends(t))
         => /\ resp' = Response("startCapture", FALSE, t.err)
            /\ Idle'
            /\ ~doc']_vars

\* C12: createDocument is never called while an offscreen document exists.
C12_NoCreateWhileDocument ==
    [][\A t \in Suspended : (t.pc = "s_create" /\ Steps(t)) => ~doc]_vars

\* An audioChunk message is handled in this step.
ChunkHandled == Next1(bgIn, "audioChunk") /\ bgIn' = Tail(bgIn)

\* The state in which sendAudioChunk forwards.
CanForward == isRecording /\ recordingId # NullId /\ isLoggedIn /\ user # NullUser

\* C13: an audioChunk is forwarded only when recording with a recording id
\* and a logged-in user, under that user and id; in every other state handling
\* it makes no backend request, answers nothing and changes no state.
C13_ChunkForwardedOnlyWhileRecording ==
    [][ChunkHandled
        => /\ \A c \in streamCalls' \ streamCalls :
                CanForward /\ c = [userId |-> user, recordingId |-> recordingId]
           /\ ~CanForward => UNCHANGED <<session, recording, surface, tabUrl, tasks,
                                         resp, backend, stopInitiator, clock>>]_vars

\* A chunk was handled and forwarded, and the recording has stopped since.
C13_Witness ==
    /\ streamCalls # {}
    /\ ~isRecording

\* C14: a login that ends by answering a failure leaves the session logged out
\* in memory and in storage, and the store never holds a user no backend
\* exchange returned.
C14_FailedLoginLoggedOut ==
    [][\A t \in Suspended :
         (t.kind = "login" /\ t.err # NoErr /\ Ends(t))
         => /\ resp' = Response("login", FALSE, t.err)
            /\ ~isLoggedIn'
            /\ user' = NullUser
            /\ stored' = NullUser]_vars

\* C15: after any sequence of tab-activation, URL-change and focus events,
\* whenever activeTabInfo is the foreground tab those events determine, the
\* seconds in dailyActivityLog add up to the seconds of the dwell intervals the
\* events delimit (each counted once, when it ends in working hours and lasts
\* more than 1 second).
C15_LogEqualsDwell ==
    (tabEventsOnly /\ (activeTabInfo = fg \/ (fg.tabId = NoTab /\ activeTabInfo = EmptyTabInfo)))
        => Total(dailyActivityLog) = ideal

\* The handler t suspends at pc in this step.
Reaches(t, pc) == CopiesIn(At(t, pc), tasks') > CopiesIn(At(t, pc), tasks)

\* C16 as stated: when the daily-flush handler completes, the in-memory log
\* and the persisted log are empty.
C16_EmptyWhenFlushCompletes ==
    [][\A t \in Suspended :
         (t.kind = "dailyAlarm" /\ Ends(t))
         => /\ dailyActivityLog' = EmptyLog
            /\ storedLog' = EmptyLog]_vars

\* C16, amended: when the daily flush clears the log (its send skipped, or
\* resolved however it went), the in-memory log and the persisted log are
\* empty at that moment, and completing the handler changes neither.
C16_FlushClears ==
    [][/\ (\E t \in Suspended : t.pc = "d_fetch" /\ Steps(t)) \/ DailyAlarm
          => \/ \E t \in BagToSet(tasks') : t.pc = "d_fetch" /\ Reaches(t, "d_fetch")
             \/ dailyActivityLog' = EmptyLog /\ storedLog' = EmptyLog
       /\ \A t \in Suspended :
            (t.kind = "dailyAlarm" /\ Ends(t))
            => UNCHANGED <<dailyActivityLog, storedLog>>]_vars

\* A flush has sent a batch and cleared the log, in memory and in storage.
C16_Witness ==
    \E t \in Suspended :
        /\ t.pc = "d_set"
        /\ t.log # EmptyLog
        /\ dailyActivityLog = EmptyLog
        /\ storedLog = EmptyLog

\* C17: a daily flush that finds the log non-empty (the pending interval
\* added) makes a send attempt with that log as its batch, and the log a flush
\* clears is the batch it sent.
C17_FlushSendsWhatItClears ==
    [][/\ (DailyAlarm /\ updateActivity(activeTabInfo, now) # EmptyLog)
          => \E t \in BagToSet(tasks') :
                /\ Reaches(t, "d_fetch")
                /\ t.log = updateActivity(activeTabInfo, now)
       /\ \A t \in Suspended :
            (t.pc = "d_fetch" /\ Steps(t)) => dailyActivityLog = t.log]_vars

\* C18: the seconds a step adds to the log are no more than the time since
\* the last accrual (no interval is accrued twice), and the startTime reset
\* that ends an alarm handler never moves startTime backwards.
C18_NoDoubleAccrual ==
    [][/\ (/\ Total(dailyActivityLog') > Total(dailyActivityLog)
           /\ ~\E t \in Suspended : t.pc = "ld_get" /\ Steps(t))
          => Total(dailyActivityLog') - Total(dailyActivityLog) <= now - creditedTo
       /\ \A t \in Suspended :
            (t.pc \in {"d_set", "p_set"} /\ Steps(t))
            => activeTabInfo'.startTime >= activeTabInfo.startTime]_vars

\* C19 as stated: when the periodic-save handler completes, the persisted log
\* equals the in-memory log, and no entry of the log it saved has become
\* smaller.
C19_SavedWhenSnapshotCompletes ==
    [][\A t \in Suspended :
         (t.kind = "periodicAlarm" /\ Ends(t))
         => /\ storedLog' = dailyActivityLog'
            /\ \A d \in Domains : dailyActivityLog'[d] >= t.log[d]]_vars

\* C19, amended: when the periodic-save handler hands the log to storage, the
\* persisted log equals the in-memory log with the pending interval added, no
\* entry has become smaller, and completing the handler changes neither log.
C19_SnapshotSaves ==
    [][/\ PeriodicAlarm
          => /\ storedLog' = dailyActivityLog'
             /\ dailyActivityLog' = updateActivity(activeTabInfo, now)
             /\ \A d \in Domains : dailyActivityLog'[d] >= dailyActivityLog[d]
       /\ \A t \in Suspended :
            (t.kind = "periodicAlarm" /\ Ends(t))
            => UNCHANGED <<dailyActivityLog, storedLog>>]_vars

\* A periodic save has persisted a log that includes an interval accrued in
\* this run.
C19_Witness ==
    /\ \E t \in Suspended : t.pc = "p_set" /\ t.log = storedLog
    /\ storedLog = dailyActivityLog
    /\ Total(storedLog) > Total(SavedLog)

\* C20: a periodic save never replaces a non-empty persisted log by an empty
\* one, and whenever no handler is suspended a persisted session is the
\* session in memory.
C20_RestartReloads ==
    [][/\ (PeriodicAlarm /\ storedLog # EmptyLog) => storedLog' # EmptyLog
       /\ (tasks' = EmptyBag /\ stored' # NullUser)
          => (isLoggedIn' /\ user' = stored')]_vars


\* A tab activation, an active-tab URL change or a window focus change is handled.
TabOrFocusEvent ==
    \/ \E tabId \in Tabs : TabActivated(tabId)
    \/ \E tabId \in Tabs : \E url \in TrackerUrls :
           TabUpdated(tabId, url) /\ tabId = activeTabInfo.tabId /\ activeTabInfo.url # url
    \/ \E windowId \in Windows \cup {WINDOW_ID_NONE} : FocusChanged(windowId)

\* C21: a tab activation, URL change or focus change handled outside working
\* hours adds nothing to the daily activity log and its handler sets
\* activeTabInfo.startTime to the event's timestamp (or empties activeTabInfo),
\* so that once such an event has been raised no later step credits seconds
\* from a start reference older than that event.
C21_OutsideHoursResets ==
    [][/\ (TabOrFocusEvent /\ ~isWorkingHours(now)) => dailyActivityLog' = dailyActivityLog
       /\ \A tabId \in Tabs : \A url \in TrackerUrls :
              (/\ TabUpdated(tabId, url)
               /\ tabId = activeTabInfo.tabId
               /\ activeTabInfo.url # url
               /\ ~isWorkingHours(now)) => activeTabInfo'.startTime = now
       /\ \A t \in Suspended :
              (Steps(t) /\ t.pc \in {"a_tabget", "f_query"} /\ ~isWorkingHours(t.end))
                  => activeTabInfo'.startTime \in {t.end, NullTime}
       /\ (/\ fg.startTime # NullTime
           /\ ~isWorkingHours(fg.startTime)
           /\ Total(dailyActivityLog') > Total(dailyActivityLog)
           /\ ~ResumeLoadState)
              => activeTabInfo.startTime >= fg.startTime]_vars


\* C22: a focus change to no window leaves activeTabInfo empty, every tab or
\* focus handler (a failed lookup included) completes without raising, and no
\* step adds seconds to the log for an interval that reaches into the time
\* since which no tab is in the foreground.
C22_UnfocusedNotAccrued ==
    [][/\ FocusChanged(WINDOW_ID_NONE) => activeTabInfo' = EmptyTabInfo
       /\ (TabOrFocusEvent \/ ResumeTabActivated \/ ResumeFocusQuery) => resp' = resp
       /\ (fg.tabId = NoTab /\ fg.startTime < now /\ ~ResumeLoadState)
              => Total(dailyActivityLog') <= Total(dailyActivityLog)]_vars


\* A tab or focus handler is suspended at its lookup.
LookupPending == \E t \in Suspended : t.pc \in {"a_tabget", "f_query"}

\* C25: for any sequence of tab activations and focus changes, once every
\* lookup has completed activeTabInfo describes the tab that the most recently
\* raised event put in the foreground.
C25_LatestEventWins ==
    (tabEventsOnly /\ ~LookupPending) => activeTabInfo.tabId = fg.tabId


\* The pcs at which a handler awaits notifyPopupStatus.
NotifyPcs == {"s_notify", "t_notify", "l_notify", "o_notify", "n_notify"}

\* C26: the URL-change handler never raises and never answers, whatever
\* happens during its status broadcast, and a login, logout, start or stop
\* that ends at its status broadcast answers success exactly when the
\* operation itself met no error.
C26_FailuresAbsorbed ==
    [][\A t \in Suspended :
         /\ (t.kind = "tabUpdated" /\ Steps(t)) => resp' = resp
         /\ (/\ t.kind \in {"login", "logout", "startCapture", "stopCapture"}
             /\ t.pc \in NotifyPcs
             /\ Ends(t)) => resp' = Response(t.kind, t.err = NoErr, t.err)]_vars


\* C29: in every state between handler steps the four recording fields agree:
\* isRecording holds exactly when recordingId, recordingTabId and
\* recordingTabUrl are all set.
C29_RecordingFieldsAgree ==
    /\ isRecording <=> recordingId # NullId
    /\ isRecording <=> recordingTabId # NoTab
    /\ isRecording <=> recordingTabUrl # NullUrl

\* A recording whose tab has navigated to another meeting URL, and a controller
\* that is Idle again after a recording.
C29_Witness ==
    \/ isRecording /\ recordingTabUrl = ZoomUrl /\ recordingId # NullId /\ recordingTabId = 1
    \/ Idle /\ endCalls # <<>> /\ tabUrl[1] # MeetUrl

\* C30: whenever a status can be reported, a recording that is on has a
\* recordingTabUrl matching the allow-list.
C30_ReportedUrlAllowed ==
    isRecording => IsMeetingUrl(recordingTabUrl)


\* The messages that are answered with {success} or {success, error}.
RequestKinds == {"login", "logout", "startCapture", "stopCapture"}

\* C23: a login, logout, startCapture or stopCapture handler answers its
\* request once, in the step that ends it, with success only when the
\* operation met no error; a startCapture without tabId is answered at once
\* with the missing-tabId error.  A handler that ends without answering leaves
\* its request unanswered for ever.
C23_AnsweredOnce ==
    [][/\ \A t \in Suspended :
            t.kind \in RequestKinds
            => /\ Ends(t) => /\ resp'.action = t.kind
                             /\ t.err # NoErr => ~resp'.success
               /\ (Steps(t) /\ ~Ends(t)) => resp' = resp
       /\ StartCaptureMissingTabId
            => resp' = Response("startCapture", FALSE, ErrMissingTabId)]_vars


\* C27: every chunk forwarded is forwarded under the recording id of the
\* recording whose offscreen document produced it.
C27_ChunkTaggedWithProducer ==
    [][\A c \in streamCalls' \ streamCalls : c.recordingId = chunkOf]_vars


\* C28: the seconds a daily flush sends under a userId were all accrued while
\* that user was logged in.
C28_FlushReportsOwnSeconds ==
    [][\A t \in BagToSet(tasks') :
         (DailyAlarm /\ t.pc = "d_fetch") => accruedBy' \subseteq {t.usr}]_vars


\* C24: when the popup's startCapture is answered with a failure, the popup
\* shows the error as its status, does not show the recording state, and
\* leaves the record button enabled.
C24_PopupShowsStartFailure ==
    [][(/\ popup.pc = "c_start"
        /\ popup'.pc # "c_start"
        /\ resp.action = "startCapture"
        /\ ~resp.success)
       => /\ popup'.status = StatusErrStart(resp.error)
          /\ popup'.label # LabelStop
          /\ ~popup'.disabled]_vars

====
